---- MODULE Spec2Model ----
(***************************************************************************)
(* Motion segmentation and trimming engine of the welding detector:        *)
(* MotionDetectionService (app/services/motion_detection_service.py).      *)
(*                                                                         *)
(* Frames are solid-colour rasters: a frame is its luma value, and the     *)
(* grayscale conversion and the Gaussian blur leave a solid frame as it    *)
(* is.  fps values are whole numbers.  min_area_percent is carried in      *)
(* tenths of a percent, motion_percentage in hundredths of a percent and   *)
(* reduction_percent in tenths of a percent, so that the roundings of the  *)
(* code are computed on exact quotients.                                   *)
(***************************************************************************)
EXTENDS Integers, Sequences, FiniteSets, TLC

VARIABLES
    pc,                 \* position of the call in the service's code
    video,              \* the input file: decoded frames and container metadata
    self,               \* the service's configuration fields (__init__)
    args,               \* the arguments of the call
    calls,              \* calls made on the service so far, this one included
    first,              \* the first detect_motion call that ended, and its outcome
    cap_attempts,       \* cv2.VideoCapture(path) constructions so far
    cap_opens,          \* cv2.VideoCapture handles opened so far
    cap_releases,       \* cap.release() calls so far
    total_frames,       \* detect_motion: int(cap.get(CAP_PROP_FRAME_COUNT))
    fps,                \* detect_motion: cap.get(CAP_PROP_FPS) or 30.0
    prev_gray,          \* detect_motion: the reference frame
    min_changed_pixels, \* detect_motion: int(total_pixels * min_area / 100)
    frame_idx,          \* detect_motion: index of the frame the next read returns
    motion_frames,      \* detect_motion: indices flagged as motion
    gi,                 \* _group_into_segments: position in motion_frames
    start,              \* _group_into_segments: first frame of the current run
    end,                \* _group_into_segments: last frame of the current run
    seg_start,          \* _group_into_segments: padded start of the run just closed
    seg_end,            \* _group_into_segments: padded end of the run just closed
    runs_closed,        \* number of runs closed (padded) so far
    segments,           \* _group_into_segments: padded runs kept, before merging
    mi,                 \* _merge_overlapping: position in segments
    merged,             \* _merge_overlapping: the merged list
    analysis,           \* the MotionAnalysisResult returned by detect_motion
    selected,           \* trim_to_motion: the segments to copy
    seg_i,              \* trim_to_motion: position in the selected segments
    remaining,          \* trim_to_motion: iterations left of the inner copy loop
    cap_pos,            \* trim_to_motion: CAP_PROP_POS_FRAMES of the reopened source
    seeks,              \* trim_to_motion: start frames handed to cap.set, in order
    read_failures,      \* trim_to_motion: reads that returned ret = False
    dir_created,        \* trim_to_motion: out_path.parent.mkdir was called
    writer_opens,       \* cv2.VideoWriter handles created so far
    writer_releases,    \* writer.release() calls so far
    out_file,           \* whether a file is at out_path
    input_overwritten,  \* the writer was opened on the path of the input
    out_frames,         \* frames handed to writer.write, in order
    frames_written,     \* trim_to_motion: the counter reported in the result
    result,             \* the dict returned by trim_to_motion
    raised,             \* the exception that ended the call, if one did
    bright_in,          \* trim-to-postprocessing: the recording and the parameters
    scan,               \* detect_welding_process: the locals of the frame scan
    bright_out,         \* trim_to_post_processing: cut, output, error, response
    processing,         \* VideoOverlayService._processing: filename -> status dict
    jobs,               \* the worker threads started by process_video, in order
    ov_call             \* the last call made on the VideoOverlayService

vars == << pc, video, self, args, cap_opens, cap_releases, total_frames, fps,
           prev_gray, min_changed_pixels, frame_idx, motion_frames, gi, start,
           end, seg_start, seg_end, runs_closed, segments, mi, merged,
           analysis, selected, seg_i, remaining, cap_pos, seeks,
           read_failures, dir_created, writer_opens, out_frames,
           frames_written, result, calls, first, cap_attempts,
           writer_releases, out_file, input_overwritten, raised,
           bright_in, scan, bright_out, processing, jobs, ov_call >>

detect_vars == << total_frames, fps, prev_gray, min_changed_pixels, frame_idx,
                  motion_frames >>

group_vars == << gi, start, end, seg_start, seg_end, runs_closed, segments >>

merge_vars == << mi, merged >>

trim_vars == << selected, seg_i, remaining, cap_pos, seeks, read_failures,
                dir_created, writer_opens, out_frames, frames_written, result,
                out_file, input_overwritten >>

handle_vars == << cap_attempts, cap_opens, cap_releases, writer_releases >>

session_vars == << calls, first >>

motion_vars == << pc, video, self, args, session_vars, handle_vars, raised,
                 detect_vars, group_vars, merge_vars, analysis, trim_vars >>

bright_vars == << bright_in, scan, bright_out >>

overlay_vars == << processing, jobs, ov_call >>

input_vars == << video, self, args, session_vars, bright_vars, overlay_vars >>

----------------------------------------------------------------------------
(* Bounds of the model *)

MaxFrames == 5

MaxFrameIndex == 6

MaxPadding == 2

MaxMinSegment == 2

(* Program constants *)

DefaultFps == 30

DefaultThreshold == 25

\* min_area_percent = 0.5, in tenths of a percent
DefaultMinAreaTenths == 5

\* an Optional argument the caller left out
None == -1

Max2(a, b) == IF a >= b THEN a ELSE b

Min2(a, b) == IF a <= b THEN a ELSE b

Abs(a) == IF a >= 0 THEN a ELSE -a

\* round(num / den, 0) for num >= 0, den > 0; Python rounds halves to even
RoundHalfEven(num, den) ==
    LET q == num \div den
        r == num % den
    IN  IF 2 * r < den THEN q
        ELSE IF 2 * r > den THEN q + 1
        ELSE IF q % 2 = 0 THEN q ELSE q + 1

\* round(num / den) for any sign of num
RoundSigned(num, den) ==
    IF num >= 0 THEN RoundHalfEven(num, den) ELSE -RoundHalfEven(-num, den)

----------------------------------------------------------------------------
(* _group_into_segments and _merge_overlapping *)

MotionSegment(s, e) == [start_frame |-> s, end_frame |-> e]

MaxGapFullSecond(f) == f

\* max_gap = int(fps * 0.5)
MaxGap(f) == f \div 2

PadStartUnclamped(s, pad) == s - pad

\* seg_start = max(0, start - self.padding_frames)
PadStart(s, pad) == Max2(0, s - pad)

PadEndUnclamped(e, pad, total) == e + pad

\* seg_end = min(total_frames - 1, end + self.padding_frames)
PadEnd(e, pad, total) == Min2(total - 1, e + pad)

AppendAlways(segs, s, e, min_len) == Append(segs, MotionSegment(s, e))

AppendIfLonger(segs, s, e, min_len) ==
    IF e - s > min_len THEN Append(segs, MotionSegment(s, e)) ELSE segs

\* if seg_end - seg_start >= self.min_segment_frames: segments.append(...)
AppendIfLong(segs, s, e, min_len) ==
    IF e - s >= min_len THEN Append(segs, MotionSegment(s, e)) ELSE segs

ShouldMergeOnOverlap(last, seg, pad) == seg.start_frame <= last.end_frame

\* the merge condition of _merge_overlapping
ShouldMerge(last, seg, pad) == seg.start_frame <= last.end_frame + pad

MergeStepAppending(m, seg, pad) ==
    LET last == m[Len(m)]
    IN  IF ShouldMerge(last, seg, pad)
        THEN Append(m, MotionSegment(last.start_frame,
                                     Max2(last.end_frame, seg.end_frame)))
        ELSE Append(m, seg)

\* one iteration of the loop of _merge_overlapping over segments[1:]
MergeStep(m, seg, pad) ==
    LET last == m[Len(m)]
    IN  IF ShouldMerge(last, seg, pad)
        THEN [m EXCEPT ![Len(m)] =
                 MotionSegment(last.start_frame,
                               Max2(last.end_frame, seg.end_frame))]
        ELSE Append(m, seg)

RECURSIVE MergeFrom(_, _, _, _)
MergeFrom(m, segs, k, pad) ==
    IF k > Len(segs) THEN m
    ELSE MergeFrom(MergeStep(m, segs[k], pad), segs, k + 1, pad)

\* _merge_overlapping(segments, fps), as a function of its argument
MergeOverlapping(segs, pad) ==
    IF Len(segs) <= 1 THEN segs ELSE MergeFrom(<< segs[1] >>, segs, 2, pad)

\* frame / fps * 1000 in floating point: the quotient rounded to the nearest
\* representable value.  The grid of representable values is one of whole
\* milliseconds here, standing for the float64 grid: the quotient is exact
\* at 1 and 2 fps and rounded at 30 fps, as in float64.
TimeMs(frame, f) == RoundHalfEven(frame * 1000, f)

\* MotionSegment(start_frame=seg_start, end_frame=seg_end, start_time_ms=...,
\* end_time_ms=..., duration_ms=...) as _group_into_segments builds it
TimedSegment(s, e, f) ==
    [start_frame |-> s, end_frame |-> e,
     start_time_ms |-> TimeMs(s, f),
     end_time_ms |-> TimeMs(e, f),
     duration_ms |-> TimeMs(e - s, f)]

\* the list of kept runs with its time fields
TimedSegments(segs, f) ==
    [k \in 1..Len(segs) |->
        TimedSegment(segs[k].start_frame, segs[k].end_frame, f)]

TimedMergeStepStaleEnd(m, seg, pad, f) ==
    LET last == m[Len(m)]
    IN  IF ShouldMerge(last, seg, pad)
        THEN [m EXCEPT ![Len(m)] =
                 [start_frame |-> last.start_frame,
                  end_frame |-> Max2(last.end_frame, seg.end_frame),
                  start_time_ms |-> last.start_time_ms,
                  end_time_ms |-> last.end_time_ms,
                  duration_ms |-> last.duration_ms]]
        ELSE Append(m, seg)

\* one iteration of the loop of _merge_overlapping, time fields included
TimedMergeStep(m, seg, pad, f) ==
    LET last == m[Len(m)]
        new_end == Max2(last.end_frame, seg.end_frame)
    IN  IF ShouldMerge(last, seg, pad)
        THEN [m EXCEPT ![Len(m)] =
                 [start_frame |-> last.start_frame,
                  end_frame |-> new_end,
                  start_time_ms |-> last.start_time_ms,
                  end_time_ms |-> TimeMs(new_end, f),
                  duration_ms |-> TimeMs(new_end - last.start_frame, f)]]
        ELSE Append(m, seg)

RECURSIVE TimedMergeFrom(_, _, _, _, _)
TimedMergeFrom(m, segs, k, pad, f) ==
    IF k > Len(segs) THEN m
    ELSE TimedMergeFrom(TimedMergeStep(m, segs[k], pad, f), segs, k + 1, pad, f)

\* _merge_overlapping(segments, fps) on segments that carry their time fields
TimedMergeOverlapping(segs, pad, f) ==
    IF Len(segs) <= 1 THEN segs
    ELSE TimedMergeFrom(<< segs[1] >>, segs, 2, pad, f)

\* if not motion_frames: return []; else start = end = motion_frames[0]
GroupStart ==
    /\ pc = "group"
    /\ IF motion_frames = << >>
       THEN /\ merged' = << >>
            /\ pc' = "grouped"
            /\ UNCHANGED << group_vars, mi >>
       ELSE /\ segments' = << >>
            /\ start' = motion_frames[1]
            /\ end' = motion_frames[1]
            /\ gi' = 2
            /\ pc' = "group_loop"
            /\ UNCHANGED << seg_start, seg_end, runs_closed, merge_vars >>
    /\ UNCHANGED << input_vars, handle_vars, raised,
                    detect_vars, analysis, trim_vars >>

\* one iteration of: for frame in motion_frames[1:]
GroupLoop ==
    /\ pc = "group_loop"
    /\ gi <= Len(motion_frames)
    /\ LET frame == motion_frames[gi]
       IN  IF frame - end <= MaxGap(fps)
           THEN /\ end' = frame
                /\ UNCHANGED << start, seg_start, seg_end, runs_closed, segments >>
           ELSE /\ seg_start' = PadStart(start, self.padding_frames)
                /\ seg_end' = PadEnd(end, self.padding_frames, total_frames)
                /\ runs_closed' = runs_closed + 1
                /\ segments' = AppendIfLong(segments, seg_start', seg_end',
                                            self.min_segment_frames)
                /\ start' = frame
                /\ end' = frame
    /\ gi' = gi + 1
    /\ UNCHANGED << pc, input_vars, handle_vars, raised,
                    detect_vars, merge_vars,
                    analysis, trim_vars >>

\* the last run is closed, then _merge_overlapping starts on the list
GroupLast ==
    /\ pc = "group_loop"
    /\ gi > Len(motion_frames)
    /\ seg_start' = PadStart(start, self.padding_frames)
    /\ seg_end' = PadEnd(end, self.padding_frames, total_frames)
    /\ runs_closed' = runs_closed + 1
    /\ segments' = AppendIfLong(segments, seg_start', seg_end',
                                self.min_segment_frames)
    /\ IF Len(segments') <= 1
       THEN /\ merged' = segments'
            /\ pc' = "grouped"
            /\ UNCHANGED mi
       ELSE /\ merged' = << segments'[1] >>
            /\ mi' = 2
            /\ pc' = "merge_loop"
    /\ UNCHANGED << gi, start, end, input_vars, handle_vars, raised,
                    detect_vars,
                    analysis, trim_vars >>

\* one iteration of: for seg in segments[1:]; the list is returned after the last
MergeLoop ==
    /\ pc = "merge_loop"
    /\ mi <= Len(segments)
    /\ merged' = MergeStep(merged, segments[mi], self.padding_frames)
    /\ mi' = mi + 1
    /\ pc' = IF mi' > Len(segments) THEN "grouped" ELSE "merge_loop"
    /\ UNCHANGED << input_vars, handle_vars, raised,
                    detect_vars, group_vars, analysis,
                    trim_vars >>

----------------------------------------------------------------------------
(* detect_motion *)

Lumas == {0, 255}

\* values of cap.get(CAP_PROP_FPS); 0 is an unknown frame rate
FpsValues == {0, 1, 2}

\* frame_width * frame_height of the first frame
PixelCounts == {100, 400}

\* CAP_PROP_FRAME_COUNT minus the number of frames that decode
FrameCountSkew == {-2, -1, 0, 1}

\* x or default
OrDefault(x, default) == IF x = None \/ x = 0 THEN default ELSE x

\* cv2.countNonZero(cv2.threshold(cv2.absdiff(prev_gray, gray), threshold, 255,
\* THRESH_BINARY)) of two solid frames
ChangedPixels(prev, gray, threshold, total_pixels) ==
    IF Abs(prev - gray) > threshold THEN total_pixels ELSE 0

\* int(total_pixels * min_area / 100), min_area in tenths of a percent
MinChangedPixels(total_pixels, min_area_tenths) ==
    (total_pixels * min_area_tenths) \div 1000

\* round(len(motion_frames) / (total_frames / analyze_step) * 100, 2) if
\* total_frames > 0 else 0, in hundredths of a percent
MotionPct(n_motion, total, analyze_step) ==
    IF total > 0 THEN RoundHalfEven(n_motion * analyze_step * 10000, total) ELSE 0

NoAnalysis ==
    [total_frames |-> 0, fps |-> 0, segments |-> << >>, motion_percentage |-> 0]

NoResult == [status |-> "none"]

OpenAlwaysSucceeds(v) == FALSE

\* if not cap.isOpened()
CannotOpen(v) == ~v.openable

\* cap = cv2.VideoCapture(path); when it opened: metadata read, first frame read
DetectOpen ==
    /\ pc = "call"
    /\ cap_attempts' = cap_attempts + 1
    /\ IF CannotOpen(video)
       THEN \* raise ValueError(f"Cannot open video: {path}"), before the try
            /\ pc' = "raised"
            /\ raised' = "ValueError"
            /\ UNCHANGED << cap_opens, cap_releases, detect_vars >>
       ELSE /\ cap_opens' = cap_opens + 1
            /\ total_frames' = video.frame_count
            /\ fps' = IF video.fps = 0 THEN DefaultFps ELSE video.fps
            /\ IF Len(video.frames) = 0
               THEN \* raise ValueError("Cannot read first frame");
                    \* finally: cap.release()
                    /\ pc' = "raised"
                    /\ raised' = "ValueError"
                    /\ cap_releases' = cap_releases + 1
                    /\ UNCHANGED << prev_gray, min_changed_pixels, frame_idx,
                                    motion_frames >>
               ELSE /\ prev_gray' = video.frames[1]
                    /\ min_changed_pixels' =
                           MinChangedPixels(video.total_pixels,
                                            OrDefault(args.min_area_percent,
                                                      self.min_area_percent))
                    /\ motion_frames' = << >>
                    /\ frame_idx' = 1
                    /\ pc' = "detect_loop"
                    /\ UNCHANGED << cap_releases, raised >>
    /\ UNCHANGED << input_vars, writer_releases, group_vars, merge_vars,
                    analysis, trim_vars >>

KeepReference(prev, gray) == prev

\* prev_gray = gray, after the comparison of an analyzed frame
NextReference(prev, gray) == gray

\* one iteration of the while True loop of detect_motion
DetectRead ==
    /\ pc = "detect_loop"
    /\ IF frame_idx >= Len(video.frames)
       THEN \* ret is False: break
            /\ pc' = "group"
            /\ UNCHANGED << prev_gray, frame_idx, motion_frames >>
       ELSE LET gray == video.frames[frame_idx + 1]
                threshold == OrDefault(args.threshold, self.threshold)
            IN  /\ IF frame_idx % args.analyze_step = 0
                   THEN /\ motion_frames' =
                               IF ChangedPixels(prev_gray, gray, threshold,
                                                video.total_pixels)
                                      >= min_changed_pixels
                               THEN Append(motion_frames, frame_idx)
                               ELSE motion_frames
                        /\ prev_gray' = NextReference(prev_gray, gray)
                   ELSE UNCHANGED << motion_frames, prev_gray >>
                /\ frame_idx' = frame_idx + 1
                /\ UNCHANGED pc
    /\ UNCHANGED << input_vars, handle_vars, raised,
                    total_frames, fps,
                    min_changed_pixels, group_vars, merge_vars, analysis,
                    trim_vars >>

\* the MotionAnalysisResult is built and returned; finally: cap.release()
DetectReturn ==
    /\ pc = "grouped"
    /\ analysis' = [total_frames |-> total_frames,
                    fps |-> fps,
                    segments |-> merged,
                    motion_percentage |->
                        MotionPct(Len(motion_frames), total_frames,
                                  args.analyze_step)]
    /\ cap_releases' = cap_releases + 1
    /\ pc' = IF args.op = "detect_motion" THEN "done" ELSE "trim"
    /\ UNCHANGED << input_vars, cap_attempts, cap_opens, writer_releases,
                    raised, detect_vars, group_vars, merge_vars, trim_vars >>

----------------------------------------------------------------------------
(* trim_to_motion *)

\* st_size of the input and of the output file, in units of one size step
SizeValues == {1, 2}

NoMotionByPercentage(a) == a.motion_percentage = 0

\* if not analysis.segments
NoMotion(a) == a.segments = << >>

Duration(seg) == seg.end_frame - seg.start_frame

LongestIsFirst(segs) == segs[1]

\* max(analysis.segments, key=lambda s: s.duration_ms): the first of the longest
Longest(segs) ==
    segs[CHOOSE i \in 1..Len(segs) :
            \A j \in 1..Len(segs) :
                /\ Duration(segs[i]) >= Duration(segs[j])
                /\ (Duration(segs[i]) = Duration(segs[j]) => i <= j)]

SelectSegments(segs, include_all_segments) ==
    IF include_all_segments THEN segs ELSE << Longest(segs) >>

\* round((1 - output_size / original_size) * 100, 1) if original_size > 0 else 0,
\* in tenths of a percent
ReductionPercent(output_size, original_size) ==
    IF original_size > 0
    THEN RoundSigned((original_size - output_size) * 1000, original_size)
    ELSE 0

\* round(frames_written / fps, 2), in hundredths of a second
DurationSeconds(n_frames, f) == RoundHalfEven(n_frames * 100, f)

CountFrameBeforeCheck(n, ret) == n + 1

\* the counter after one iteration of the inner loop: it is incremented after
\* writer.write(frame) and not when the read failed
CountFrame(n, ret) == IF ret THEN n + 1 ELSE n

\* the name of the recording, and of the output the call names
InputFilename == "rec.mp4"

OutputFilename(a) ==
    IF a.output_is_input THEN InputFilename ELSE "rec_trimmed.mp4"

\* after detect_motion returned: the no-motion return, or the source is
\* reopened and the writer is created on out_path
TrimBegin ==
    /\ pc = "trim"
    /\ IF NoMotion(analysis)
       THEN /\ result' = [status |-> "no_motion",
                          filename |-> InputFilename,
                          message |-> "No motion detected in video"]
            /\ pc' = "done"
            /\ UNCHANGED << selected, seg_i, dir_created, writer_opens,
                            out_frames, frames_written, cap_attempts,
                            cap_opens, cap_releases, out_file,
                            input_overwritten, raised >>
       ELSE IF ~args.include_all_segments /\ analysis.segments = << >>
       THEN \* max() of an empty list raises ValueError
            /\ pc' = "raised"
            /\ raised' = "ValueError"
            /\ UNCHANGED << selected, seg_i, dir_created, writer_opens,
                            out_frames, frames_written, cap_attempts,
                            cap_opens, cap_releases, result, out_file,
                            input_overwritten >>
       ELSE /\ selected' = SelectSegments(analysis.segments,
                                          args.include_all_segments)
            /\ dir_created' = TRUE
            /\ cap_attempts' = cap_attempts + 1
            /\ cap_opens' = cap_opens + 1
            /\ out_frames' = << >>
            /\ frames_written' = 0
            /\ seg_i' = 1
            /\ UNCHANGED result
            /\ \E opened \in BOOLEAN :
                  IF opened
                  THEN \* cv2.VideoWriter(str(out_path), ...) creates the file
                       /\ writer_opens' = writer_opens + 1
                       /\ out_file' = TRUE
                       /\ input_overwritten' = args.output_is_input
                       /\ pc' = "trim_seek"
                       /\ UNCHANGED << cap_releases, raised >>
                  ELSE \* raise ValueError("Cannot create output video");
                       \* finally: cap.release().  A file may be at out_path:
                       \* one the backend created before it failed, or the
                       \* output of an earlier call that used this name.
                       /\ pc' = "raised"
                       /\ raised' = "ValueError"
                       /\ cap_releases' = cap_releases + 1
                       /\ out_file' \in BOOLEAN
                       /\ UNCHANGED << writer_opens, input_overwritten >>
    /\ UNCHANGED << input_vars, writer_releases, detect_vars, group_vars,
                    merge_vars, analysis, remaining, cap_pos, seeks,
                    read_failures >>

\* for seg in segments: cap.set(cv2.CAP_PROP_POS_FRAMES, seg.start_frame)
TrimSeek ==
    /\ pc = "trim_seek"
    /\ seg_i <= Len(selected)
    /\ cap_pos' = selected[seg_i].start_frame
    /\ seeks' = Append(seeks, selected[seg_i].start_frame)
    /\ remaining' = selected[seg_i].end_frame - selected[seg_i].start_frame + 1
    /\ IF remaining' > 0
       THEN pc' = "trim_copy" /\ UNCHANGED seg_i
       ELSE pc' = "trim_seek" /\ seg_i' = seg_i + 1
    /\ UNCHANGED << input_vars, handle_vars, raised,
                    detect_vars, group_vars,
                    merge_vars, analysis, selected, read_failures, dir_created,
                    writer_opens, out_frames, frames_written, result, out_file,
                    input_overwritten >>

\* one iteration of the inner loop: a read, and the write of the frame read.
\* A read past the last decodable frame fails; any other read may fail too.
\* cap.read() or writer.write(frame) may raise: finally: cap.release()
TrimCopy ==
    /\ pc = "trim_copy"
    /\ \/ \E ret \in BOOLEAN :
             /\ ret => cap_pos < Len(video.frames)
             /\ frames_written' = CountFrame(frames_written, ret)
             /\ IF ret
                THEN /\ out_frames' = Append(out_frames, video.frames[cap_pos + 1])
                     /\ cap_pos' = cap_pos + 1
                     /\ remaining' = remaining - 1
                     /\ UNCHANGED read_failures
                     /\ IF remaining' = 0
                        THEN pc' = "trim_seek" /\ seg_i' = seg_i + 1
                        ELSE UNCHANGED << pc, seg_i >>
                ELSE \* break
                     /\ read_failures' = read_failures + 1
                     /\ pc' = "trim_seek"
                     /\ seg_i' = seg_i + 1
                     /\ UNCHANGED << out_frames, cap_pos, remaining >>
             /\ UNCHANGED << cap_releases, raised >>
       \/ /\ pc' = "raised"
          /\ raised' = "cv2.error"
          /\ cap_releases' = cap_releases + 1
          /\ UNCHANGED << frames_written, out_frames, cap_pos, remaining,
                          read_failures, seg_i >>
    /\ UNCHANGED << input_vars, cap_attempts, cap_opens, writer_releases,
                    detect_vars, group_vars, merge_vars, analysis, selected,
                    seeks, dir_created, writer_opens, result, out_file,
                    input_overwritten >>

\* writer.release(), the file sizes are read, the dict is returned;
\* finally: cap.release().  path.stat() or out_path.stat() may raise OSError.
TrimFinish ==
    /\ pc = "trim_seek"
    /\ seg_i > Len(selected)
    /\ writer_releases' = writer_releases + 1
    /\ cap_releases' = cap_releases + 1
    /\ \/ /\ \E original_size \in SizeValues, output_size \in SizeValues :
                result' = [status |-> "completed",
                           input_filename |-> InputFilename,
                           output_filename |-> OutputFilename(args),
                           output_path |-> OutputFilename(args),
                           segments_count |-> Len(selected),
                           frames_written |-> frames_written,
                           duration_seconds |->
                               DurationSeconds(frames_written, fps),
                           original_size |-> original_size,
                           output_size |-> output_size,
                           reduction_percent |->
                               ReductionPercent(output_size, original_size)]
          /\ pc' = "done"
          /\ UNCHANGED raised
       \/ /\ pc' = "raised"
          /\ raised' = "OSError"
          /\ UNCHANGED result
    /\ UNCHANGED << input_vars, cap_attempts, cap_opens, detect_vars,
                    group_vars, merge_vars, analysis, selected, seg_i,
                    remaining, cap_pos, seeks, read_failures, dir_created,
                    writer_opens, out_frames, frames_written, out_file,
                    input_overwritten >>

----------------------------------------------------------------------------
(* POST /recordings/{filename}/trim-to-motion (app/api/routes.py) *)

\* the fields of TrimToMotionResponse that have no default
ResponseRequired == {"status", "input_filename"}

\* TrimToMotionResponse(**result) validates
Validates(r) == ResponseRequired \subseteq DOMAIN r

\* the status code the route answers with, for a recording that
\* get_recording_path found, once the service call has ended at p with dict r:
\* any exception, a validation error of the response model included, is
\* turned into HTTPException(500)
TrimRouteStatus(p, r) ==
    IF p = "raised" THEN 500
    ELSE IF Validates(r) THEN 200
    ELSE 500

----------------------------------------------------------------------------
(* Trim to post-processing: POST /recordings/{filename}/trim-to-postprocessing *)
(* (app/api/routes.py) and the brightness cut finder it calls.  A frame is    *)
(* the percentage of its pixels above brightness_threshold, in tenths of a   *)
(* percent, as is min_bright_percent.                                         *)

MaxClipFrames == 6

MaxGapTolerance == 2

DefaultMinBrightTenths == 20

BrightPercents == {0, DefaultMinBrightTenths, 50}

\* the frame is bright: its fraction of pixels above brightness_threshold
\* exceeds min_bright_percent
IsBright(percent, min_bright_percent) == percent > min_bright_percent

GapEndsRegionAtTolerance(dim, gap_tolerance_frames) == dim >= gap_tolerance_frames

\* the region has ended: more than gap_tolerance_frames non-bright frames
\* followed its last bright frame
GapEndsRegion(dim, gap_tolerance_frames) == dim > gap_tolerance_frames

NoClip ==
    [exists |-> FALSE, openable |-> FALSE, percents |-> << >>,
     min_bright_percent |-> 0, gap_tolerance_frames |-> 0]

NoScan == [idx |-> 0, welding_start |-> None, welding_end |-> None, dim |-> 0]

NoOutput ==
    [cut |-> None, writer_opens |-> 0, frames |-> << >>, error |-> "none",
     status |-> 0]

\* no trim-to-postprocessing request is in progress
BrightIdle ==
    /\ bright_in = NoClip
    /\ scan = NoScan
    /\ bright_out = NoOutput

AnyErrorIsInternal(error) == IF error = "none" THEN 200 ELSE 500

\* the status code of the route for the way the service call ended:
\* except ValueError -> 400, except Exception -> 500, else the result
PostProcessingStatus(error) ==
    IF error = "none" THEN 200
    ELSE IF error = "ValueError" THEN 400
    ELSE 500

\* path = camera.get_recording_path(filename); if not path: 404
BrightRoute ==
    /\ pc = "b_request"
    /\ IF ~bright_in.exists
       THEN /\ bright_out' = [bright_out EXCEPT !.status = 404]
            /\ pc' = "b_responded"
       ELSE /\ pc' = "b_open"
            /\ UNCHANGED bright_out
    /\ UNCHANGED << video, self, args, session_vars, overlay_vars, bright_in, scan,
                    handle_vars, raised, detect_vars, group_vars, merge_vars,
                    analysis, trim_vars >>

\* the container is opened; one that cannot be opened is a decode error
BrightOpen ==
    /\ pc = "b_open"
    /\ IF ~bright_in.openable
       THEN /\ bright_out' = [bright_out EXCEPT !.error = "DecodeError"]
            /\ pc' = "b_raised"
       ELSE /\ pc' = "b_scan"
            /\ UNCHANGED bright_out
    /\ UNCHANGED << video, self, args, session_vars, overlay_vars, bright_in, scan,
                    handle_vars, raised, detect_vars, group_vars, merge_vars,
                    analysis, trim_vars >>

\* one frame of the scan, in order: the first bright frame starts the
\* region, each bright frame extends it, and the scan stops when the region
\* has ended or the frames are exhausted
BrightScan ==
    /\ pc = "b_scan"
    /\ IF scan.idx >= Len(bright_in.percents)
       THEN /\ pc' = "b_found"
            /\ UNCHANGED scan
       ELSE IF IsBright(bright_in.percents[scan.idx + 1],
                        bright_in.min_bright_percent)
       THEN /\ scan' = [idx |-> scan.idx + 1,
                        welding_start |->
                            IF scan.welding_start = None THEN scan.idx
                            ELSE scan.welding_start,
                        welding_end |-> scan.idx,
                        dim |-> 0]
            /\ UNCHANGED pc
       ELSE IF scan.welding_start = None
       THEN /\ scan' = [scan EXCEPT !.idx = scan.idx + 1]
            /\ UNCHANGED pc
       ELSE /\ scan' = [scan EXCEPT !.idx = scan.idx + 1, !.dim = scan.dim + 1]
            /\ pc' = IF GapEndsRegion(scan.dim + 1,
                                      bright_in.gap_tolerance_frames)
                     THEN "b_found" ELSE "b_scan"
    /\ UNCHANGED << video, self, args, session_vars, overlay_vars, bright_in, bright_out,
                    handle_vars, raised, detect_vars, group_vars, merge_vars,
                    analysis, trim_vars >>

\* find_post_processing_start: the first frame index after the region, or
\* None; trim_to_post_processing: no region is a domain error and nothing
\* is written, else the frames from the cut on are written
BrightTrim ==
    /\ pc = "b_found"
    /\ IF scan.welding_start = None
       THEN /\ bright_out' = [bright_out EXCEPT !.error = "ValueError"]
            /\ pc' = "b_raised"
       ELSE LET cut == scan.welding_end + 1
            IN  /\ bright_out' =
                       [bright_out EXCEPT
                            !.cut = cut,
                            !.writer_opens = 1,
                            !.frames = SubSeq(bright_in.percents, cut + 1,
                                              Len(bright_in.percents))]
                /\ pc' = "b_returned"
    /\ UNCHANGED << video, self, args, session_vars, overlay_vars, bright_in, scan,
                    handle_vars, raised, detect_vars, group_vars, merge_vars,
                    analysis, trim_vars >>

\* return result, or the except clauses of the route
BrightRespond ==
    /\ pc \in {"b_returned", "b_raised"}
    /\ bright_out' =
           [bright_out EXCEPT !.status = PostProcessingStatus(bright_out.error)]
    /\ pc' = "b_responded"
    /\ UNCHANGED << video, self, args, session_vars, overlay_vars, bright_in, scan,
                    handle_vars, raised, detect_vars, group_vars, merge_vars,
                    analysis, trim_vars >>

----------------------------------------------------------------------------
(* VideoOverlayService (app/services/video_overlay_service.py): process_video *)
(* starts one worker thread per job; the threads and the callers share the    *)
(* status map, each access to it under self._lock                             *)

MaxJobs == 3

MaxOverlayFrames == 1

\* names asked for: one recording in recordings_dir, one name with no file
Filenames == {"rec.mp4", "gone.mp4"}

OnDisk == {"rec.mp4"}

\* what the caller handed over as callback: nothing, a function that
\* returns, a function that raises
Callbacks == {"none", "returns", "raises"}

\* filename not in self._processing
Absent == [status |-> "absent", progress |-> None]

\* a call on the service: what it was, what it returned (True and False as
\* 1 and 0, or the count of clear_completed), the status of the filename
\* when it was made, whether the status map changed, whether a thread started
NoOverlayCall ==
    [op |-> "none", filename |-> "none", returned |-> 0,
     before |-> "absent", changed |-> FALSE, started |-> FALSE]

\* a VideoOverlayService after __init__, no call made yet
OverlayIdle ==
    /\ processing = [f \in Filenames |-> Absent]
    /\ jobs = << >>
    /\ ov_call = NoOverlayCall

\* the thread of a job: its arguments, its position, and what it has done
Job(filename, callback) ==
    [filename |-> filename, callback |-> callback, pc |-> "open",
     frame_idx |-> 0, cap_open |-> FALSE, writer_open |-> FALSE,
     wrote |-> << >>, callback_calls |-> 0]

\* int((frame_idx / total_frames) * 100) for a container that reports
\* MaxOverlayFrames + 1 frames
Progress(n) == (n * 100) \div (MaxOverlayFrames + 1)

\* process_video(filename, start_time, callback): the locked section, then
\* the thread is started and True is returned
ProcessVideo ==
    /\ pc = "overlay"
    /\ \E filename \in Filenames :
          IF processing[filename] # Absent \/ filename \notin OnDisk
          THEN \* return False
               /\ ov_call' = [op |-> "process_video", filename |-> filename,
                              returned |-> 0,
                              before |-> processing[filename].status,
                              changed |-> FALSE, started |-> FALSE]
               /\ UNCHANGED << processing, jobs >>
          ELSE \E callback \in Callbacks :
                  /\ Len(jobs) < MaxJobs
                  /\ processing' =
                         [processing EXCEPT
                             ![filename] = [status |-> "processing",
                                            progress |-> 0]]
                  /\ jobs' = Append(jobs, Job(filename, callback))
                  /\ ov_call' = [op |-> "process_video",
                                 filename |-> filename, returned |-> 1,
                                 before |-> processing[filename].status,
                                 changed |-> TRUE, started |-> TRUE]
    /\ UNCHANGED << motion_vars, bright_vars >>

\* cap = cv2.VideoCapture(str(input_path)); if not cap.isOpened(): raise
WorkerOpen ==
    /\ pc = "overlay"
    /\ \E j \in 1..Len(jobs), opened \in BOOLEAN :
          /\ jobs[j].pc = "open"
          /\ jobs' = [jobs EXCEPT ![j].cap_open = TRUE,
                                  ![j].pc = IF opened THEN "writer" ELSE "except"]
    /\ UNCHANGED << motion_vars, bright_vars, processing, ov_call >>

\* writer = cv2.VideoWriter(...); if not writer.isOpened(): raise
WorkerWriter ==
    /\ pc = "overlay"
    /\ \E j \in 1..Len(jobs), opened \in BOOLEAN :
          /\ jobs[j].pc = "writer"
          /\ jobs' = [jobs EXCEPT ![j].writer_open = TRUE,
                                  ![j].pc = IF opened THEN "loop" ELSE "except"]
    /\ UNCHANGED << motion_vars, bright_vars, processing, ov_call >>

\* one iteration of the while True loop: a failed read breaks, a frame is
\* written and the progress stored in the entry of the filename if there is
\* one; cv2 may raise
WorkerRead ==
    /\ pc = "overlay"
    /\ \E j \in 1..Len(jobs), outcome \in {"frame", "end", "raise"} :
          /\ jobs[j].pc = "loop"
          /\ outcome = "frame" => jobs[j].frame_idx < MaxOverlayFrames
          /\ IF outcome = "frame"
             THEN /\ jobs' = [jobs EXCEPT ![j].frame_idx = jobs[j].frame_idx + 1]
                  /\ processing' =
                         IF processing[jobs[j].filename] # Absent
                         THEN [processing EXCEPT
                                  ![jobs[j].filename].progress =
                                      Progress(jobs[j].frame_idx + 1)]
                         ELSE processing
             ELSE /\ jobs' = [jobs EXCEPT
                                 ![j].pc = IF outcome = "end" THEN "complete"
                                           ELSE "except"]
                  /\ UNCHANGED processing
    /\ UNCHANGED << motion_vars, bright_vars, ov_call >>

\* with self._lock: self._processing[filename] = result
WorkerComplete ==
    /\ pc = "overlay"
    /\ \E j \in 1..Len(jobs) :
          /\ jobs[j].pc = "complete"
          /\ processing' = [processing EXCEPT
                               ![jobs[j].filename] = [status |-> "completed",
                                                      progress |-> None]]
          /\ jobs' = [jobs EXCEPT
                         ![j].wrote = Append(jobs[j].wrote, "completed"),
                         ![j].pc = IF jobs[j].callback = "none" THEN "finally"
                                   ELSE "callback"]
    /\ UNCHANGED << motion_vars, bright_vars, ov_call >>

\* if callback: callback(filename, result), inside the try
WorkerCallback ==
    /\ pc = "overlay"
    /\ \E j \in 1..Len(jobs) :
          /\ jobs[j].pc = "callback"
          /\ jobs' = [jobs EXCEPT
                         ![j].callback_calls = jobs[j].callback_calls + 1,
                         ![j].pc = IF jobs[j].callback = "raises" THEN "except"
                                   ELSE "finally"]
    /\ UNCHANGED << motion_vars, bright_vars, processing, ov_call >>

\* except Exception: with self._lock: self._processing[filename] = failed
WorkerFail ==
    /\ pc = "overlay"
    /\ \E j \in 1..Len(jobs) :
          /\ jobs[j].pc = "except"
          /\ processing' = [processing EXCEPT
                               ![jobs[j].filename] = [status |-> "failed",
                                                      progress |-> None]]
          /\ jobs' = [jobs EXCEPT
                         ![j].wrote = Append(jobs[j].wrote, "failed"),
                         ![j].pc = IF jobs[j].callback = "none" THEN "finally"
                                   ELSE "fail_callback"]
    /\ UNCHANGED << motion_vars, bright_vars, ov_call >>

\* if callback: callback(filename, {"status": "failed", ...}), in the handler
WorkerFailCallback ==
    /\ pc = "overlay"
    /\ \E j \in 1..Len(jobs) :
          /\ jobs[j].pc = "fail_callback"
          /\ jobs' = [jobs EXCEPT
                         ![j].callback_calls = jobs[j].callback_calls + 1,
                         ![j].pc = "finally"]
    /\ UNCHANGED << motion_vars, bright_vars, processing, ov_call >>

\* finally: cap.release(); writer.release(); the thread ends
WorkerFinally ==
    /\ pc = "overlay"
    /\ \E j \in 1..Len(jobs) :
          /\ jobs[j].pc = "finally"
          /\ jobs' = [jobs EXCEPT ![j].cap_open = FALSE,
                                  ![j].writer_open = FALSE,
                                  ![j].pc = "ended"]
    /\ UNCHANGED << motion_vars, bright_vars, processing, ov_call >>

\* the filenames clear_completed removes
ToRemove == { f \in Filenames : processing[f].status \in {"completed", "failed"} }

\* clear_completed(): the entries with status completed or failed are
\* deleted and their number is returned
ClearCompleted ==
    /\ pc = "overlay"
    /\ processing' = [f \in Filenames |->
                         IF f \in ToRemove THEN Absent ELSE processing[f]]
    /\ ov_call' = [op |-> "clear_completed", filename |-> "none",
                   returned |-> Cardinality(ToRemove),
                   before |-> "absent", changed |-> ToRemove # {},
                   started |-> FALSE]
    /\ UNCHANGED << motion_vars, bright_vars, jobs >>

----------------------------------------------------------------------------
(* Initial states and specifications *)

FrameSeqs == UNION { [1..n -> Lumas] : n \in 0..MaxFrames }

\* files that cv2.VideoCapture opens
Videos ==
    { [frames |-> f, frame_count |-> c, fps |-> r, total_pixels |-> p,
       openable |-> TRUE] :
        f \in FrameSeqs, c \in 0..(MaxFrames + 1), r \in FpsValues,
        p \in PixelCounts }

\* a path that does not exist, or a file that is not a video: cap.isOpened()
\* is False
MissingVideo ==
    [frames |-> << >>, frame_count |-> 0, fps |-> 0, total_pixels |-> 0,
     openable |-> FALSE]

\* MotionDetectionService(...): the fields set by __init__
Services ==
    [threshold : {DefaultThreshold},
     min_area_percent : {DefaultMinAreaTenths},
     min_segment_frames : 0..MaxMinSegment,
     padding_frames : 0..MaxPadding]

\* detect_motion(path, analyze_step=...), and trim_to_motion(path, ...), which
\* calls detect_motion with the default analyze_step
Calls ==
    [op : {"detect_motion"}, threshold : {None}, min_area_percent : {None},
     analyze_step : {1, 2}, include_all_segments : {TRUE},
     output_is_input : {FALSE}]
    \cup
    [op : {"trim_to_motion"}, threshold : {None}, min_area_percent : {None},
     analyze_step : {1}, include_all_segments : BOOLEAN,
     output_is_input : {FALSE}]

\* no detect_motion call has ended yet
NoFirst ==
    [set |-> FALSE, returned |-> FALSE, analysis |-> NoAnalysis,
     args |-> [op |-> "none"], video |-> MissingVideo]

InitLocals ==
    /\ cap_attempts = 0
    /\ cap_opens = 0
    /\ cap_releases = 0
    /\ prev_gray = 0
    /\ min_changed_pixels = 0
    /\ frame_idx = 0
    /\ gi = 0
    /\ start = 0
    /\ end = 0
    /\ seg_start = 0
    /\ seg_end = 0
    /\ runs_closed = 0
    /\ segments = << >>
    /\ mi = 0
    /\ merged = << >>
    /\ analysis = NoAnalysis
    /\ selected = << >>
    /\ seg_i = 0
    /\ remaining = 0
    /\ cap_pos = 0
    /\ seeks = << >>
    /\ read_failures = 0
    /\ dir_created = FALSE
    /\ writer_opens = 0
    /\ writer_releases = 0
    /\ out_file = FALSE
    /\ input_overwritten = FALSE
    /\ out_frames = << >>
    /\ frames_written = 0
    /\ result = NoResult
    /\ raised = "none"

\* a call of detect_motion or trim_to_motion on a video file
Init ==
    /\ pc = "call"
    /\ video \in { v \in Videos : v.frame_count - Len(v.frames) \in FrameCountSkew }
                 \cup {MissingVideo}
    /\ self \in Services
    /\ args \in Calls
    /\ calls = 1
    /\ first = NoFirst
    /\ BrightIdle
    /\ OverlayIdle
    /\ total_frames = 0
    /\ fps = DefaultFps
    /\ motion_frames = << >>
    /\ InitLocals

Next ==
    \/ DetectOpen
    \/ DetectRead
    \/ GroupStart
    \/ GroupLoop
    \/ GroupLast
    \/ MergeLoop
    \/ DetectReturn
    \/ TrimBegin
    \/ TrimSeek
    \/ TrimCopy
    \/ TrimFinish

Spec == Init /\ [][Next]_vars

RECURSIVE Ascending(_)
\* the elements of a set of numbers in increasing order
Ascending(S) ==
    IF S = {} THEN << >>
    ELSE LET m == CHOOSE x \in S : \A y \in S : x <= y
         IN  << m >> \o Ascending(S \ {m})

\* a call of _group_into_segments: detect_motion appends frame indices >= 1 in
\* increasing order, and the container's frame count is independent of them
InitSeg ==
    /\ pc = "group"
    /\ motion_frames \in { Ascending(S) : S \in SUBSET (1..MaxFrameIndex) }
    /\ total_frames \in 0..(MaxFrameIndex + 1)
    /\ fps \in (FpsValues \ {0}) \cup {DefaultFps}
    /\ self \in Services
    /\ video = [frames |-> << >>, frame_count |-> total_frames, fps |-> fps,
                total_pixels |-> 0, openable |-> TRUE]
    /\ args = [op |-> "detect_motion", threshold |-> None,
               min_area_percent |-> None, analyze_step |-> 1,
               include_all_segments |-> TRUE, output_is_input |-> FALSE]
    /\ calls = 1
    /\ first = NoFirst
    /\ BrightIdle
    /\ OverlayIdle
    /\ InitLocals

NextSeg ==
    \/ GroupStart
    \/ GroupLoop
    \/ GroupLast
    \/ MergeLoop

SpecSeg == InitSeg /\ [][NextSeg]_vars

----------------------------------------------------------------------------
(* A session: calls made one after the other on the service instance that    *)
(* get_motion_detection_service() keeps, on one recording                    *)

MaxSessionFrames == 3

MaxCalls == 3

SessionVideos ==
    { v \in Videos : Len(v.frames) <= MaxSessionFrames
                        /\ v.frame_count = Len(v.frames) }

\* the calls of Calls, a trim whose output file name is the name of the
\* input, calls whose threshold or min_area_percent (in tenths of a
\* percent) lies outside 0..255 and 0..100 percent, and a call that names
\* the value 0 for both
SessionCalls ==
    Calls
    \cup
    [op : {"trim_to_motion"}, threshold : {None}, min_area_percent : {None},
     analyze_step : {1}, include_all_segments : {TRUE},
     output_is_input : {TRUE}]
    \cup
    [op : {"detect_motion"}, threshold : {300}, min_area_percent : {None},
     analyze_step : {1}, include_all_segments : {TRUE},
     output_is_input : {FALSE}]
    \cup
    [op : {"trim_to_motion"}, threshold : {None}, min_area_percent : {2000},
     analyze_step : {1}, include_all_segments : {TRUE},
     output_is_input : {FALSE}]
    \cup
    [op : {"detect_motion"}, threshold : {0}, min_area_percent : {0},
     analyze_step : {1}, include_all_segments : {TRUE},
     output_is_input : {FALSE}]

\* the recording as the next call finds it: the file the writer was opened
\* on holds what was written to it, at the rate the writer was created with
FileAfter(v) ==
    IF input_overwritten
    THEN [v EXCEPT !.frames = out_frames, !.frame_count = Len(out_frames),
                   !.fps = fps]
    ELSE v

\* the call has ended; the next call starts with fresh locals on the same
\* service instance and the same path
NextCall ==
    /\ pc \in {"done", "raised"}
    /\ calls < MaxCalls
    /\ calls' = calls + 1
    /\ first' = IF ~first.set /\ args.op = "detect_motion"
                THEN [set |-> TRUE, returned |-> pc = "done",
                      analysis |-> analysis, args |-> args, video |-> video]
                ELSE first
    /\ video' = FileAfter(video)
    /\ args' \in SessionCalls
    /\ pc' = "call"
    /\ total_frames' = 0
    /\ fps' = DefaultFps
    /\ motion_frames' = << >>
    /\ cap_attempts' = 0
    /\ cap_opens' = 0
    /\ cap_releases' = 0
    /\ prev_gray' = 0
    /\ min_changed_pixels' = 0
    /\ frame_idx' = 0
    /\ gi' = 0
    /\ start' = 0
    /\ end' = 0
    /\ seg_start' = 0
    /\ seg_end' = 0
    /\ runs_closed' = 0
    /\ segments' = << >>
    /\ mi' = 0
    /\ merged' = << >>
    /\ analysis' = NoAnalysis
    /\ selected' = << >>
    /\ seg_i' = 0
    /\ remaining' = 0
    /\ cap_pos' = 0
    /\ seeks' = << >>
    /\ read_failures' = 0
    /\ dir_created' = FALSE
    /\ writer_opens' = 0
    /\ writer_releases' = 0
    /\ out_file' = FALSE
    /\ input_overwritten' = FALSE
    /\ out_frames' = << >>
    /\ frames_written' = 0
    /\ result' = NoResult
    /\ raised' = "none"
    /\ UNCHANGED << self, bright_vars, overlay_vars >>

InitSession ==
    /\ pc = "call"
    /\ video \in SessionVideos
    /\ self \in Services
    /\ args \in SessionCalls
    /\ calls = 1
    /\ first = NoFirst
    /\ BrightIdle
    /\ OverlayIdle
    /\ total_frames = 0
    /\ fps = DefaultFps
    /\ motion_frames = << >>
    /\ InitLocals

NextSession ==
    \/ DetectOpen
    \/ DetectRead
    \/ GroupStart
    \/ GroupLoop
    \/ GroupLast
    \/ MergeLoop
    \/ DetectReturn
    \/ TrimBegin
    \/ TrimSeek
    \/ TrimCopy
    \/ TrimFinish
    \/ NextCall

SpecSession == InitSession /\ [][NextSession]_vars

----------------------------------------------------------------------------
(* A trim-to-postprocessing request *)

ClipSeqs == UNION { [1..n -> BrightPercents] : n \in 0..MaxClipFrames }

\* a recording that opens, one that cannot be opened, and a name that
\* get_recording_path does not find
Clips ==
    [exists : {TRUE}, openable : {TRUE}, percents : ClipSeqs,
     min_bright_percent : {DefaultMinBrightTenths},
     gap_tolerance_frames : 0..MaxGapTolerance]
    \cup
    [exists : BOOLEAN, openable : {FALSE}, percents : {<< >>},
     min_bright_percent : {DefaultMinBrightTenths},
     gap_tolerance_frames : {0}]

InitBright ==
    /\ pc = "b_request"
    /\ bright_in \in Clips
    /\ scan = NoScan
    /\ bright_out = NoOutput
    /\ OverlayIdle
    /\ video = MissingVideo
    /\ self = [threshold |-> DefaultThreshold,
               min_area_percent |-> DefaultMinAreaTenths,
               min_segment_frames |-> 0, padding_frames |-> 0]
    /\ args = [op |-> "trim_to_post_processing", threshold |-> None,
               min_area_percent |-> None, analyze_step |-> 1,
               include_all_segments |-> TRUE, output_is_input |-> FALSE]
    /\ calls = 1
    /\ first = NoFirst
    /\ total_frames = 0
    /\ fps = DefaultFps
    /\ motion_frames = << >>
    /\ InitLocals

NextBright ==
    \/ BrightRoute
    \/ BrightOpen
    \/ BrightScan
    \/ BrightTrim
    \/ BrightRespond

SpecBright == InitBright /\ [][NextBright]_vars

----------------------------------------------------------------------------
(* Calls on a VideoOverlayService and the threads they start *)

InitOverlay ==
    /\ pc = "overlay"
    /\ OverlayIdle
    /\ BrightIdle
    /\ video = MissingVideo
    /\ self = [threshold |-> DefaultThreshold,
               min_area_percent |-> DefaultMinAreaTenths,
               min_segment_frames |-> 0, padding_frames |-> 0]
    /\ args = [op |-> "process_video", threshold |-> None,
               min_area_percent |-> None, analyze_step |-> 1,
               include_all_segments |-> TRUE, output_is_input |-> FALSE]
    /\ calls = 1
    /\ first = NoFirst
    /\ total_frames = 0
    /\ fps = DefaultFps
    /\ motion_frames = << >>
    /\ InitLocals

NextOverlay ==
    \/ ProcessVideo
    \/ WorkerOpen
    \/ WorkerWriter
    \/ WorkerRead
    \/ WorkerComplete
    \/ WorkerCallback
    \/ WorkerFail
    \/ WorkerFailCallback
    \/ WorkerFinally
    \/ ClearCompleted

SpecOverlay == InitOverlay /\ [][NextOverlay]_vars

----------------------------------------------------------------------------
(* Properties *)

\* detect_motion has returned its MotionAnalysisResult
Returned == pc \in {"trim", "trim_seek", "trim_copy", "done"}

\* trim_to_motion has returned its dict
Trimmed == pc = "done" /\ args.op = "trim_to_motion"

\* the number of frames the video really holds
N == Len(video.frames)

SegLen(seg) == seg.end_frame - seg.start_frame + 1

RECURSIVE SumLen(_)
SumLen(segs) == IF segs = << >> THEN 0 ELSE SegLen(Head(segs)) + SumLen(Tail(segs))

\* C1: the list returned by the segment builder is sorted ascending by
\* start_frame, pairwise non-overlapping, and every segment lies within
\* 0 <= start_frame <= end_frame <= total_frames - 1.
C1_SegmentInvariants ==
    pc = "grouped" =>
        /\ \A k \in 1..Len(merged) :
              /\ 0 <= merged[k].start_frame
              /\ merged[k].start_frame <= merged[k].end_frame
              /\ merged[k].end_frame <= total_frames - 1
        /\ \A j, k \in 1..Len(merged) :
              j < k => /\ merged[j].start_frame < merged[k].start_frame
                       /\ merged[j].end_frame < merged[k].start_frame

\* two segments survive the merge, clamped at both ends of the video
C1_Witness ==
    /\ pc = "grouped"
    /\ Len(merged) >= 2
    /\ merged[1].start_frame = 0
    /\ motion_frames[1] > 0
    /\ merged[Len(merged)].end_frame = total_frames - 1
    /\ motion_frames[Len(motion_frames)] < total_frames - 1

\* C2: merging the output of the merge pass again returns the same list, and
\* no pair of adjacent output segments still satisfies the merge condition.
C2_MergeIdempotent ==
    pc = "grouped" =>
        /\ MergeOverlapping(merged, self.padding_frames) = merged
        /\ \A k \in 1..(Len(merged) - 1) :
              ~(merged[k + 1].start_frame
                    <= merged[k].end_frame + self.padding_frames)

\* the pass merged two padded runs and kept another one apart
C2_Witness ==
    /\ pc = "grouped"
    /\ Len(segments) >= 3
    /\ Len(merged) = Len(segments) - 1

\* C3: a closed run [start, end] is padded to max(0, start - padding_frames)
\* and min(total_frames - 1, end + padding_frames): the padded start is never
\* negative and is 0 when the run starts closer to frame 0 than padding_frames;
\* a run that is kept enters the list with exactly these two frames.
C3_PaddingClamp ==
    [][ runs_closed' = runs_closed + 1 =>
          /\ seg_start' >= 0
          /\ seg_start' <= start
          /\ (start >= self.padding_frames =>
                  seg_start' = start - self.padding_frames)
          /\ (start < self.padding_frames => seg_start' = 0)
          /\ seg_end' <= total_frames - 1
          /\ seg_end' <= end + self.padding_frames
          /\ (seg_end' = total_frames - 1 \/ seg_end' = end + self.padding_frames)
          /\ (Len(segments') > Len(segments) =>
                  segments'[Len(segments')] =
                      [start_frame |-> seg_start', end_frame |-> seg_end'])
      ]_vars

\* a run that starts closer to frame 0 than the padding was kept from frame 0
C3_Witness ==
    /\ runs_closed >= 1
    /\ self.padding_frames > motion_frames[1]
    /\ segments # << >>
    /\ segments[1].start_frame = 0
    /\ segments[1].end_frame >= motion_frames[1]

\* every decoded frame is the same picture
AllIdentical == \A k \in 1..N : video.frames[k] = video.frames[1]

\* the container reports the number of frames that decode
TrueFrameCount == video.frame_count = N

\* C4: a video of identical frames gives segments = [] and
\* motion_percentage = 0.0, and trim_to_motion on it returns no_motion, for
\* every frame size and configuration (stated for videos whose container
\* reports the true frame count).
C4_NoMotionScenario ==
    (N >= 1 /\ AllIdentical /\ TrueFrameCount) =>
        /\ Returned => /\ analysis.segments = << >>
                       /\ analysis.motion_percentage = 0
        /\ Trimmed => result.status = "no_motion"

\* C5: when the analysis has no segment, trim_to_motion returns no_motion and
\* nothing of the trimmer ran: the source was opened once (by detect_motion),
\* no directory and no writer was created, no seek and no write happened.
C5_NoMotionShortCircuit ==
    (args.op = "trim_to_motion" /\ Returned /\ analysis.segments = << >>) =>
        /\ pc \in {"trim", "done"}
        /\ pc = "done" => result.status = "no_motion"
        /\ cap_opens = 1
        /\ writer_opens = 0
        /\ ~dir_created
        /\ seeks = << >>
        /\ out_frames = << >>

\* frames were flagged as motion, and still no segment was long enough
C5_Witness ==
    /\ Trimmed
    /\ result.status = "no_motion"
    /\ motion_frames # << >>
    /\ cap_opens = 1

\* every frame after the first is flagged as motion
FullMotion == args.analyze_step = 1 /\ Len(motion_frames) = N - 1

WholeClip ==
    /\ analysis.segments = << [start_frame |-> 0, end_frame |-> N - 1] >>
    /\ analysis.motion_percentage = RoundHalfEven((N - 1) * 10000, N)

\* C6 as stated: whenever every frame after the first is flagged as motion,
\* the result is the one segment [0, N - 1] and motion_percentage is (N-1)/N.
C6_FullMotionAlways == (Returned /\ FullMotion) => WholeClip

\* C6 as amended: the same, for a video of N >= 2 frames whose container
\* reports N frames, with padding_frames >= 1, int(fps * 0.5) >= 1 and
\* N - 1 >= min_segment_frames.
C6_FullMotion ==
    ( /\ Returned
      /\ FullMotion
      /\ N >= 2
      /\ video.frame_count = N
      /\ self.padding_frames >= 1
      /\ fps \div 2 >= 1
      /\ N - 1 >= self.min_segment_frames ) => WholeClip

\* alternating frames of real size: every comparison is flagged
C6_Witness ==
    /\ Returned
    /\ FullMotion
    /\ N = MaxFrames
    /\ video.frame_count = N
    /\ self.padding_frames >= 1
    /\ fps \div 2 >= 1
    /\ N - 1 >= self.min_segment_frames
    /\ \A k \in 1..(N - 1) : video.frames[k] # video.frames[k + 1]
    /\ min_changed_pixels > 0
    /\ WholeClip

\* C7: when no read fails, include_all_segments=True reports all detected
\* segments and the sum of their lengths, and include_all_segments=False
\* reports one segment and the length of the longest detected segment.
C7_TrimAccounting ==
    (Trimmed /\ result.status = "completed" /\ read_failures = 0) =>
        IF args.include_all_segments
        THEN /\ result.segments_count = Len(analysis.segments)
             /\ result.frames_written = SumLen(analysis.segments)
        ELSE /\ result.segments_count = 1
             /\ \E k \in 1..Len(analysis.segments) :
                   result.frames_written = SegLen(analysis.segments[k])
             /\ \A k \in 1..Len(analysis.segments) :
                   result.frames_written >= SegLen(analysis.segments[k])

\* the longest of two segments is not the first one, and only it was copied
C7_Witness ==
    /\ Trimmed
    /\ result.status = "completed"
    /\ read_failures = 0
    /\ ~args.include_all_segments
    /\ Len(analysis.segments) >= 2
    /\ SegLen(analysis.segments[1]) < SegLen(analysis.segments[2])
    /\ result.frames_written = SegLen(analysis.segments[2])

\* C8: whatever reads fail, frames_written is the number of frames handed to
\* the writer, never more than requested; a failed read ends one segment only:
\* every selected segment is seeked to, and the call returns completed.
C8_ReadFailureTruncates ==
    /\ pc \in {"trim_seek", "trim_copy"} => frames_written = Len(out_frames)
    /\ (Trimmed /\ analysis.segments # << >>) =>
          /\ result.status = "completed"
          /\ result.frames_written = Len(out_frames)
          /\ result.frames_written <= SumLen(selected)
          /\ read_failures <= Len(selected)
          /\ seeks = [k \in 1..Len(selected) |-> selected[k].start_frame]

\* a read failed in the first segment and the second one was still copied
C8_Witness ==
    /\ Trimmed
    /\ result.status = "completed"
    /\ Len(selected) >= 2
    /\ read_failures = 1
    /\ Len(out_frames) = SegLen(selected[2])
    /\ result.frames_written < SumLen(selected)

\* C9: the reduction_percent of a completed trim is never negative, also when
\* the output file is larger than the original (stated for videos whose
\* container reports the true frame count and whose frames differ, when no
\* read failed).
C9_ReductionNonNegative ==
    ( /\ Trimmed
      /\ result.status = "completed"
      /\ TrueFrameCount
      /\ ~AllIdentical
      /\ read_failures = 0 ) => result.reduction_percent >= 0

\* the frames detect_motion compared with the reference frame
Analyzed == { k \in 1..(N - 1) : k % args.analyze_step = 0 }

\* C10: motion_percentage is the share of the analyzed frames that were
\* flagged as motion, and lies between 0 and 100, also when the container's
\* frame count differs from the number of frames decoded (stated for frames
\* large enough for a positive pixel bound).
C10_MotionPercentage ==
    (Returned /\ min_changed_pixels > 0) =>
        /\ analysis.motion_percentage >= 0
        /\ analysis.motion_percentage <= 10000
        /\ analysis.motion_percentage =
               IF Analyzed = {} THEN 0
               ELSE RoundHalfEven(Len(motion_frames) * 10000,
                                  Cardinality(Analyzed))

\* the call has ended, by a return or by an exception
Ended == pc \in {"done", "raised"}

\* C11: a video that opens but holds zero frames, and a video of exactly one
\* frame, each make detect_motion return an empty segment list without
\* raising an error.
C11_ShortVideos ==
    (video.openable /\ N <= 1 /\ pc # "call") =>
        /\ raised = "none"
        /\ pc # "raised"
        /\ (Returned => analysis.segments = << >>)

\* C18: detect_motion on a path that cannot be opened raises ValueError after
\* one attempt to open it, with no handle opened, no frame read and no
\* MotionAnalysisResult (nor trim result) built.
C18_MissingPathRaises ==
    (~video.openable /\ pc # "call") =>
        /\ pc = "raised"
        /\ raised = "ValueError"
        /\ cap_attempts = 1
        /\ cap_opens = 0
        /\ cap_releases = 0
        /\ frame_idx = 0
        /\ analysis = NoAnalysis
        /\ result = NoResult

C18_Witness ==
    /\ ~video.openable
    /\ args.op = "detect_motion"
    /\ pc = "raised"
    /\ raised = "ValueError"
    /\ cap_attempts = 1

\* trim_to_motion ended because the VideoWriter could not be created
WriterFailed ==
    /\ args.op = "trim_to_motion"
    /\ pc = "raised"
    /\ cap_opens = 2
    /\ writer_opens = 0

\* C13: when the output container cannot be created, trim_to_motion fails
\* with an error, returns no result, and no file remains at the output path.
\* Stated for a video whose container reports its true frame count and whose
\* motion bound is at least one pixel.
C13_WriterFailureCleansUp ==
    (WriterFailed /\ TrueFrameCount /\ min_changed_pixels > 0) =>
        /\ raised # "none"
        /\ result = NoResult
        /\ ~out_file

\* C14: when a call of detect_motion or trim_to_motion has ended, by a return
\* or by an exception, every VideoCapture and every VideoWriter it opened has
\* been released.  Stated for a video whose container reports its true frame
\* count and whose motion bound is at least one pixel.
C14_HandlesReleased ==
    (Ended /\ TrueFrameCount /\ min_changed_pixels > 0) =>
        /\ cap_releases = cap_opens
        /\ writer_releases = writer_opens

\* C17: a trim-to-motion request on an existing recording in which no motion
\* segment is found is answered with a result (200) whose status is
\* no_motion, not with an error response.  Stated for a video whose
\* container reports its true frame count and whose motion bound is at least
\* one pixel.
C17_NoMotionIsNotAnError ==
    (Trimmed /\ video.openable /\ result.status = "no_motion"
        /\ TrueFrameCount /\ min_changed_pixels > 0) =>
        TrimRouteStatus(pc, result) = 200

\* the call names a threshold outside 0..255 or a min_area_percent (in tenths
\* of a percent) outside 0..100 percent
OutOfRange(a) ==
    \/ (a.threshold # None /\ a.threshold \notin 0..255)
    \/ (a.min_area_percent # None /\ a.min_area_percent \notin 0..1000)

\* C12: a call whose threshold lies outside 0..255 or whose min_area_percent
\* lies outside 0..100 is rejected with an error before the video is opened
\* or any frame is decoded.
C12_RangesValidated ==
    (OutOfRange(args) /\ pc # "call") =>
        /\ pc = "raised"
        /\ cap_attempts = 0
        /\ cap_opens = 0
        /\ frame_idx = 0

\* C15: trim_to_motion never overwrites the input video, whatever output
\* path the call names, the name of the input included.  Stated for a
\* recording whose motion bound is at least one pixel.
C15_InputPreserved ==
    (args.op = "trim_to_motion"
        /\ MinChangedPixels(video.total_pixels, self.min_area_percent) > 0) =>
        ~input_overwritten

\* C16: a detect_motion call that follows an earlier detect_motion call
\* with the same arguments on the same service instance and the same
\* recording, with any calls in between, returns the MotionAnalysisResult
\* the earlier call returned.  Stated for a recording whose motion bound is
\* at least one pixel.
C16_Deterministic ==
    (first.set /\ first.returned /\ Ended /\ args.op = "detect_motion"
        /\ args = first.args
        /\ MinChangedPixels(video.total_pixels, self.min_area_percent) > 0) =>
        /\ pc = "done"
        /\ analysis = first.analysis

\* the indices of the bright frames of the clip
BrightSet ==
    { i \in 0..(Len(bright_in.percents) - 1) :
        bright_in.percents[i + 1] > bright_in.min_bright_percent }

\* every bright frame up to e follows the bright frame before it with at
\* most gap_tolerance_frames non-bright frames in between
Chained(e) ==
    \A b \in BrightSet :
        b <= e =>
            \/ \A c \in BrightSet : b <= c
            \/ \E c \in BrightSet :
                  c < b /\ b - c - 1 <= bright_in.gap_tolerance_frames

\* the scan of the brightness cut finder has ended
Scanned == pc \in {"b_found", "b_returned", "b_raised", "b_responded"}
               /\ bright_in.exists /\ bright_in.openable

\* C19: the brightness cut finder returns the first frame index after the
\* bright region that starts at the first bright frame and is not ended by
\* up to gap_tolerance_frames non-bright frames inside it; when no frame is
\* bright the welding start and the welding end are None and there is no cut.
C19_CutAfterBrightRegion ==
    Scanned =>
        IF BrightSet = {}
        THEN /\ scan.welding_start = None
             /\ scan.welding_end = None
             /\ bright_out.cut = None
        ELSE /\ scan.welding_start \in BrightSet
             /\ \A b \in BrightSet : scan.welding_start <= b
             /\ scan.welding_end \in BrightSet
             /\ Chained(scan.welding_end)
             /\ \A b \in BrightSet : b > scan.welding_end => ~Chained(b)
             /\ (pc \in {"b_returned", "b_responded"} =>
                    bright_out.cut = scan.welding_end + 1)

\* a dimming inside the region was tolerated, and a later one ended it
C19_Witness ==
    /\ pc = "b_returned"
    /\ bright_in.gap_tolerance_frames >= 1
    /\ \E b \in BrightSet : b > scan.welding_end
    /\ \E d \in scan.welding_start..scan.welding_end : d \notin BrightSet
    /\ bright_out.cut = scan.welding_end + 1

C22_ExactBound ==
    [][ (pc = "detect_loop" /\ frame_idx' = frame_idx + 1
            /\ frame_idx % args.analyze_step = 0) =>
          LET changed ==
                  ChangedPixels(prev_gray, video.frames[frame_idx + 1],
                                OrDefault(args.threshold, self.threshold),
                                video.total_pixels)
              min_area == OrDefault(args.min_area_percent, self.min_area_percent)
          IN  (motion_frames' = Append(motion_frames, frame_idx))
                  <=> (changed * 1000 >= video.total_pixels * min_area)
      ]_vars

\* the analyzed frame before frame i: the multiple of analyze_step before it
PreviousAnalyzed(i) == i - args.analyze_step

\* the frames the loop of detect_motion has been through
FramesRead == 1..(frame_idx - 1)

\* C23: only frames whose index is a multiple of analyze_step are analyzed;
\* each is compared with the previous analyzed frame, which is the reference
\* whether or not that frame was recorded as motion; a skipped frame is never
\* the reference.
C23_SlidingReference ==
    (pc \in {"detect_loop", "group"}) =>
        /\ \A k \in 1..Len(motion_frames) :
              /\ motion_frames[k] \in FramesRead
              /\ motion_frames[k] % args.analyze_step = 0
        /\ \A i \in FramesRead :
              i % args.analyze_step = 0 =>
                  ((\E k \in 1..Len(motion_frames) : motion_frames[k] = i)
                     <=> ChangedPixels(video.frames[PreviousAnalyzed(i) + 1],
                                       video.frames[i + 1],
                                       OrDefault(args.threshold, self.threshold),
                                       video.total_pixels)
                             >= min_changed_pixels)
        /\ prev_gray =
               video.frames[(frame_idx - 1)
                               - ((frame_idx - 1) % args.analyze_step) + 1]

\* with a stride of 2, frame 4 was compared with frame 2 and not with frame 0
\* or with the skipped frame 3
C23_Witness ==
    /\ pc = "group"
    /\ args.analyze_step = 2
    /\ N = 5
    /\ min_changed_pixels > 0
    /\ video.frames[1] # video.frames[3]
    /\ video.frames[4] # video.frames[3]
    /\ video.frames[5] = video.frames[3]
    /\ motion_frames = << 2 >>

\* C24: a motion frame extends the current run if and only if its distance
\* from the run's end is at most floor(fps * 0.5) frames, i.e. twice the
\* distance is at most fps; otherwise the run is closed and a new run starts
\* at that frame.  The stride of the analysis plays no part.
C24_HalfSecondTolerance ==
    [][ (pc = "group_loop" /\ gi' = gi + 1) =>
          LET frame == motion_frames[gi]
          IN  IF 2 * (frame - end) <= fps
              THEN /\ end' = frame
                   /\ start' = start
                   /\ runs_closed' = runs_closed
                   /\ segments' = segments
              ELSE /\ runs_closed' = runs_closed + 1
                   /\ start' = frame
                   /\ end' = frame
      ]_vars

\* at 2 fps frame 2 extended the run of frame 1 and frame 4 started a new run
C24_Witness ==
    /\ pc = "grouped"
    /\ fps = 2
    /\ args.analyze_step = 1
    /\ motion_frames = << 1, 2, 4 >>
    /\ runs_closed = 2

\* C25: a padded run is discarded exactly when seg_end - seg_start is below
\* min_segment_frames, the last run included; the output segments are built
\* from the kept runs only, and every kept run lies within an output segment.
C25_ShortRunsDiscarded ==
    /\ [][ runs_closed' = runs_closed + 1 =>
             IF seg_end' - seg_start' < self.min_segment_frames
             THEN segments' = segments
             ELSE segments' =
                      Append(segments, [start_frame |-> seg_start',
                                        end_frame |-> seg_end'])
         ]_vars
    /\ [](pc = "grouped" =>
             /\ \A k \in 1..Len(segments) :
                   \E j \in 1..Len(merged) :
                       /\ merged[j].start_frame <= segments[k].start_frame
                       /\ segments[k].end_frame <= merged[j].end_frame
             /\ \A j \in 1..Len(merged) :
                   /\ \E k \in 1..Len(segments) :
                         merged[j].start_frame = segments[k].start_frame
                   /\ \E k \in 1..Len(segments) :
                         merged[j].end_frame = segments[k].end_frame)

\* of three closed runs the last one was discarded and the others were kept
C25_Witness ==
    /\ pc = "grouped"
    /\ self.min_segment_frames >= 1
    /\ runs_closed = 3
    /\ Len(segments) = 2
    /\ seg_end - seg_start < self.min_segment_frames
    /\ seg_end >= seg_start

\* C26: the merge pass merges the next segment into the previous one exactly
\* when its start_frame <= previous.end_frame + padding_frames, the result
\* being the union of the two; so adjacent output segments satisfy
\* segments[i+1].start_frame > segments[i].end_frame + padding_frames.
C26_MergeRule ==
    /\ [][ (pc = "merge_loop" /\ mi' = mi + 1) =>
             LET last == merged[Len(merged)]
                 seg == segments[mi]
             IN  IF seg.start_frame <= last.end_frame + self.padding_frames
                 THEN /\ Len(merged') = Len(merged)
                      /\ \A k \in 1..(Len(merged) - 1) : merged'[k] = merged[k]
                      /\ merged'[Len(merged)].start_frame = last.start_frame
                      /\ merged'[Len(merged)].end_frame >= last.end_frame
                      /\ merged'[Len(merged)].end_frame >= seg.end_frame
                      /\ merged'[Len(merged)].end_frame
                             \in {last.end_frame, seg.end_frame}
                 ELSE merged' = merged \o << seg >>
         ]_vars
    /\ [](pc = "grouped" =>
             \A i \in 1..(Len(merged) - 1) :
                 merged[i + 1].start_frame
                     > merged[i].end_frame + self.padding_frames)

\* two segments that do not overlap were merged because the gap between them
\* is within padding_frames
C26_Witness ==
    /\ pc = "grouped"
    /\ self.padding_frames >= 1
    /\ Len(segments) = 2
    /\ segments[2].start_frame > segments[1].end_frame
    /\ Len(merged) = 1
    /\ merged[1].end_frame = segments[2].end_frame

\* the segments _group_into_segments returns, with their time fields
TimedResult ==
    TimedMergeOverlapping(TimedSegments(segments, fps), self.padding_frames, fps)

C28_SuppliedValueUsed ==
    (pc \in {"detect_loop", "group", "group_loop", "merge_loop", "grouped"}) =>
        min_changed_pixels =
            MinChangedPixels(video.total_pixels,
                             IF args.min_area_percent = None
                             THEN self.min_area_percent
                             ELSE args.min_area_percent)

\* C21: process_video returns True when it started the processing and False
\* only if the file is already being processed or does not exist; a call that
\* returns False leaves the status map unchanged and starts no thread.
C21_FalseOnlyIfBusyOrMissing ==
    ov_call.op = "process_video" =>
        /\ (ov_call.returned = 1 <=> ov_call.started)
        /\ (ov_call.returned = 0 =>
               /\ (ov_call.before = "processing"
                      \/ ov_call.filename \notin OnDisk)
               /\ ~ov_call.changed
               /\ ~ov_call.started)

\* the threads of filename f that have not yet written a terminal status
Processing(f) ==
    { j \in 1..Len(jobs) :
        jobs[j].filename = f
            /\ jobs[j].pc \in {"open", "writer", "loop", "complete"} }

\* C29: for every interleaving of process_video calls, worker threads and
\* clear_completed calls, at most one worker thread processes a filename at
\* a time.
C29_OneWorkerPerFile ==
    \A f \in Filenames : Cardinality(Processing(f)) <= 1

\* C30: a job writes exactly one terminal status, a completed job is never
\* turned into a failed one, and the completion callback is invoked at most
\* once per job, also when the callback raises.
C30_OneTerminalStatus ==
    \A j \in 1..Len(jobs) :
        /\ Len(jobs[j].wrote) <= 1
        /\ jobs[j].callback_calls <= 1
        /\ (jobs[j].pc = "ended" => Len(jobs[j].wrote) = 1)

====
